---- MODULE Spec2Model ----
(***************************************************************************)
(* State-machine model of txtai's base scoring engine                      *)
(* (src/python/txtai/scoring/base.py, class Scoring).                      *)
(*                                                                         *)
(* Python values are represented as follows.                               *)
(*   None / optional   : None == <<>>, Some(v) == <<v>>                    *)
(*   dict / Counter    : a function whose DOMAIN is the set of keys        *)
(*   float             : fixed point, the integer round-down of v * Scale  *)
(*   str               : a TLA+ string; list : a sequence                  *)
(*   document content  : a record [type, val], type being the Python type  *)
(* The term index (txtai.scoring.terms.Terms) and the tokenizer            *)
(* (txtai.pipeline.Tokenizer) are collaborators whose code is not part of  *)
(* the modelled file; they are modelled from the interface description.    *)
(***************************************************************************)
EXTENDS Integers, Sequences, FiniteSets, TLC

\* ------------------------------------------------------------------ bounds

\* Largest value `total` may reach (insert is disabled beyond it).
MaxDocs == 2

\* os.cpu_count() of the machine the engine runs on.
CpuCount == 2

\* Line 254: one thread per 25k records in the index.
RecordsPerThread == 25000

\* Fixed-point precision: a float v is held as the integer part of v * Scale.
Scale == 1000

\* --------------------------------------------------------- python values

None == <<>>

Some(v) == <<v>>

Range(s) == {s[i] : i \in DOMAIN s}

\* Counter[key]: a missing key counts 0.
Get0(counter, key) == IF key \in DOMAIN counter THEN counter[key] ELSE 0

\* dict[key] = value
Put(dict, key, value) ==
    [k \in DOMAIN dict \cup {key} |-> IF k = key THEN value ELSE dict[k]]

Str(s) == [type |-> "str", val |-> s]

List(t) == [type |-> "list", val |-> t]

Dict(f) == [type |-> "dict", val |-> f]

NoneDoc == [type |-> "none", val |-> None]

IntDoc == [type |-> "int", val |-> 42]

\* ------------------------------------------------------------ input sets

\* The (id, content, tags) triples a caller passes to insert: text, a token
\* list with a repeated token, an empty token list, keyed records (text field
\* preferred over the object field, object field alone, neither field), None
\* and an unsupported type; tags are None or a string of three tags, one of
\* them twice.
DocInputs ==
    { <<1, Str("a b"), None>>,
      <<2, List(<<"a", "a">>), Some("a b b")>>,
      <<1, List(<<>>), None>>,
      <<2, Dict([text |-> Str("a b"), object |-> IntDoc]), Some("a b b")>>,
      <<1, Dict([object |-> List(<<>>)]), None>>,
      <<2, Dict(<<>>), Some("a b b")>>,
      <<1, NoneDoc, None>>,
      <<2, IntDoc, Some("a b b")>> }

\* The documents that appear in two-document batches: a skipped one (None),
\* an unsupported one, and two accepted ones.
PairInputs ==
    { <<1, NoneDoc, None>>, <<1, IntDoc, None>>,
      <<2, List(<<"a", "a">>), Some("a b b")>>, <<1, Str("a b"), None>> }

\* The index argument of insert: None or an offset.
Offsets == {None, Some(1)}

\* insert is called with one document, or with two and with or without an
\* index offset; each call is a <<documents, index>> pair.
InsertCalls ==
    {<<<<d>>, None>> : d \in DocInputs}
      \cup {<<<<c[1], c[2]>>, c[3]>> : c \in PairInputs \X PairInputs \X Offsets}

\* index is called with no documents or with one.
IndexBatches ==
    { <<>>, <<<<2, List(<<"a", "a">>), Some("a b b")>>>>, <<<<1, NoneDoc, None>>>> }

Ids == {1, 2}

\* delete is called with no id, one id, or two ids (possibly the same twice).
IdLists == {<<>>, <<1>>, <<2>>, <<1, 2>>, <<1, 1>>}

\* Queries: text or token lists.
Queries == {Str("a b"), List(<<"b">>), List(<<>>)}

\* The limit argument of search.
Limits == {1, 3}

\* Token lists passed to weights; "c" is in no document.
WeightInputs == {<<>>, <<"a", "b">>, <<"b", "c", "c">>}

\* batchsearch is called with no query or with two.
QueryLists == { <<>>, <<List(<<"b">>), Str("a b")>> }

\* The limit argument of batchsearch.
BatchLimits == {1}

\* The threads argument of batchsearch: True, False, 0, 2.
ThreadArgs ==
    { [type |-> "bool", val |-> 1], [type |-> "bool", val |-> 0],
      [type |-> "int", val |-> 0], [type |-> "int", val |-> 2] }

Configs ==
    { [terms |-> TRUE, content |-> TRUE, normalize |-> TRUE],
      [terms |-> TRUE, content |-> FALSE, normalize |-> FALSE],
      [terms |-> FALSE, content |-> TRUE, normalize |-> FALSE],
      [terms |-> FALSE, content |-> FALSE, normalize |-> TRUE] }

\* ------------------------------------------------------------ fixed point

\* ln(n) * 1000 for n = 1..10.
LnMilli == <<0, 693, 1099, 1386, 1609, 1792, 1946, 2079, 2197, 2303>>

\* ln(n) * 1000 for any n >= 1: the table, and between two entries of a
\* decade a linear interpolation.
RECURSIVE LnMilliOf(_)
LnMilliOf(n) ==
    IF n <= 10 THEN LnMilli[n]
    ELSE LET q == n \div 10
             r == n % 10
         IN  LnMilli[10] + LnMilliOf(q) + ((LnMilliOf(q + 1) - LnMilliOf(q)) * r) \div 10

\* np.log(n) for an integer n, in fixed point.
Ln(n) == (LnMilliOf(n) * Scale) \div 1000

RECURSIVE SqrtIter(_, _)
SqrtIter(n, x) ==
    LET y == (x + n \div x) \div 2
    IN  IF y >= x THEN x ELSE SqrtIter(n, y)

\* Integer square root (Newton iteration).
ISqrt(n) == IF n = 0 THEN 0 ELSE SqrtIter(n, n)

\* np.sqrt(v) for a fixed-point v.
FxSqrt(v) == ISqrt(v * Scale)

\* An integer as a float.
ToFx(n) == n * Scale

RECURSIVE SumOver(_, _)
SumOver(f, keys) ==
    IF keys = {} THEN 0
    ELSE LET k == CHOOSE x \in keys : TRUE
         IN  f[k] + SumOver(f, keys \ {k})

\* sum(counter.values())
SumValues(f) == SumOver(f, DOMAIN f)

\* ------------------------------------------------------------------ state

VARIABLES
    config,      \* self.config
    total,       \* self.total
    tokens,      \* self.tokens
    avgdl,       \* self.avgdl
    docfreq,     \* self.docfreq
    wordfreq,    \* self.wordfreq
    avgfreq,     \* self.avgfreq
    idf,         \* self.idf
    avgidf,      \* self.avgidf
    tags,        \* self.tags
    tokenizer,   \* self.tokenizer: None until first used
    terms,       \* self.terms: the term index's entries (unused when not configured)
    documents,   \* self.documents: None or Some(id -> content)
    normalize,   \* self.normalize
    avgscore,    \* self.avgscore: None or Some(float)
    accepted,    \* history: how many documents with each [tokens, tags] insert accepted
    outcome,     \* how the last call ended: "ok" or the exception raised
    batch,       \* batchsearch in progress: None or Some([queries, limit, threads])
    queue,       \* ThreadPool: position of the next query to hand to a worker
    running,     \* ThreadPool: positions of the queries being searched
    done,        \* ThreadPool: position -> what search returned
    completed,   \* ThreadPool: positions in the order their searches completed
    disk,        \* the files at the path of save and load, see NoFiles
    resources    \* the term index's resources: held or not, and releases so far

stats == <<total, tokens, avgdl, docfreq, wordfreq, avgfreq, idf, avgidf, tags, avgscore>>

vars == <<config, total, tokens, avgdl, docfreq, wordfreq, avgfreq, idf, avgidf,
          tags, tokenizer, terms, documents, normalize, avgscore, accepted,
          outcome, batch, queue, running, done, completed, disk, resources>>

pool == <<batch, queue, running, done, completed>>

\* -------------------------------------------------------- collaborators

\* Tokenizer: text -> ordered sequence of tokens (lower-cased words).
Tokenize(text) ==
    CASE text = "a b" -> <<"a", "b">>
      [] OTHER        -> <<>>

\* str.split() of the tags argument.
Split(text) ==
    CASE text = "a b b" -> <<"a", "b", "b">>
      [] text = "a"     -> <<"a">>
      [] text = "b"     -> <<"b">>
      [] text = "c"     -> <<"c">>
      [] OTHER          -> <<>>

\* Terms.insert(uid, tokens): add the postings of one document; they become
\* searchable when the index is built.
TermsInsert(t, uid, toks) == Append(t, [uid |-> uid, tokens |-> toks, built |-> FALSE])

\* Terms.delete(ids): remove the postings of the ids.
TermsDelete(t, ids) == SelectSeq(t, LAMBDA e : e.uid \notin Range(ids))

\* Terms.index(): commit the index structure.
TermsIndex(t) == [i \in DOMAIN t |-> [t[i] EXCEPT !.built = TRUE]]

\* Terms.count()
TermsCount(t) == Len(t)

\* Terms.save(path): the entries written to the file.
TermsSave(t) == t

\* Terms.load(path): the entries read from the file.
TermsLoad(file) == file

\* The resources (file handles, mapped memory) of the term index the
\* constructor creates: held when a term index is configured, never released.
TermsOpen == [held |-> config.terms, releases |-> 0]

\* Mutation of TermsClose: every call releases, held or not.
TermsCloseAgain(r) == [held |-> FALSE, releases |-> r.releases + 1]

\* Terms.close(): release the resources, if they are held.
TermsClose(r) == [held |-> FALSE, releases |-> r.releases + (IF r.held THEN 1 ELSE 0)]

\* ------------------------------------------------------------ Scoring

\* The files of a path nothing was saved to: no scoring file, no term index
\* file; history is the accepted documents of the engine that saved.
NoFiles == [scoring |-> None, terms |-> None, history |-> <<>>]

\* Scoring.__init__
Init ==
    /\ config \in Configs
    /\ total = 0
    /\ tokens = 0
    /\ avgdl = 0
    /\ docfreq = <<>>
    /\ wordfreq = <<>>
    /\ avgfreq = 0
    /\ idf = <<>>
    /\ avgidf = 0
    /\ tags = <<>>
    /\ tokenizer = None
    /\ terms = <<>>
    /\ documents = IF config.content THEN Some(<<>>) ELSE None
    /\ normalize = config.normalize
    /\ avgscore = None
    /\ accepted = <<>>
    /\ outcome = "ok"
    /\ batch = None
    /\ queue = 1
    /\ running = {}
    /\ done = <<>>
    /\ completed = <<>>
    /\ disk = NoFiles
    /\ resources = TermsOpen

\* self.terms is set (and truthy) exactly when the configuration asks for it.
HasTerms == config.terms

\* Scoring.computefreq: Counter(tokens)
computefreq(toks) ==
    [t \in Range(toks) |-> Cardinality({i \in DOMAIN toks : toks[i] = t})]

\* Mutation of computeidf: the + 1 is dropped.
computeidfNoOffset(n, freq) == Ln(n + 1) - Ln(freq + 1)

\* Mutation of computeidf: the ratio is inverted.
computeidfInverted(n, freq) == Ln(freq + 1) - Ln(n + 1) + Scale

\* Scoring.computeidf, for one frequency
computeidf(n, freq) == Ln(n + 1) - Ln(freq + 1) + Scale

\* Scoring.score: idf * sqrt(freq) * (1 / sqrt(length)), all floats.
\* A zero length makes 1 / np.sqrt(length) infinite.
score(freq, idfv, length) ==
    IF length = 0 THEN "inf"
    ELSE (((idfv * FxSqrt(freq)) \div Scale) * ((Scale * Scale) \div FxSqrt(length))) \div Scale

\* Counter.update(iterable): one more per element.
CounterUpdate(counter, items) ==
    LET c == computefreq(items)
    IN  [k \in DOMAIN counter \cup DOMAIN c |-> Get0(counter, k) + Get0(c, k)]

\* Counter.update(set(tokens)): one more per distinct element.
CounterUpdateSet(counter, items) ==
    [k \in DOMAIN counter \cup items |->
        Get0(counter, k) + (IF k \in items THEN 1 ELSE 0)]

\* Mutation of DocFreqUpdate: every occurrence counted, as for wordfreq.
DocFreqUpdateAll(counter, toks) == CounterUpdate(counter, toks)

\* Line 393: self.docfreq.update(set(tokens))
DocFreqUpdate(counter, toks) == CounterUpdateSet(counter, Range(toks))

\* Mutation of addstats: a document without tokens is not counted.
addstatsSkipEmpty(st, toks, tgs) ==
    [st EXCEPT
        !.wordfreq = CounterUpdate(st.wordfreq, toks),
        !.docfreq = DocFreqUpdate(st.docfreq, toks),
        !.tags = IF tgs # None /\ tgs[1] # ""
                 THEN CounterUpdate(st.tags, Split(tgs[1])) ELSE st.tags,
        !.total = IF toks # <<>> THEN st.total + 1 ELSE st.total]

\* Scoring.addstats on the statistics st
addstats(st, toks, tgs) ==
    [st EXCEPT
        !.wordfreq = CounterUpdate(st.wordfreq, toks),
        !.docfreq = DocFreqUpdate(st.docfreq, toks),
        !.tags = IF tgs # None /\ tgs[1] # ""
                 THEN CounterUpdate(st.tags, Split(tgs[1])) ELSE st.tags,
        !.total = st.total + 1]

\* dict.get(self.text, dict.get(self.object)) of a keyed record
Extract(document) ==
    IF document.type = "dict"
    THEN IF "text" \in DOMAIN document.val THEN document.val.text
         ELSE IF "object" \in DOMAIN document.val THEN document.val.object
         ELSE NoneDoc
    ELSE document

\* Mutation of InsertOne: a skipped document is still counted.
InsertOneCountingSkipped(st, doc, idx) ==
    LET document == Extract(doc[2])
        uid == IF idx # None THEN idx[1] ELSE doc[1]
    IN  IF document.type \in {"str", "list"}
        THEN LET toks == IF document.type = "str" THEN Tokenize(document.val)
                         ELSE document.val
                 s1 == IF st.documents # None
                       THEN [st EXCEPT !.documents = Some(Put(st.documents[1], uid, document))]
                       ELSE st
                 s2 == IF document.type = "str"
                       THEN [s1 EXCEPT !.tokenizer = Some("tokenizer")]
                       ELSE s1
                 s3 == IF HasTerms
                       THEN [s2 EXCEPT !.terms = TermsInsert(s2.terms, uid, toks)]
                       ELSE s2
             IN  addstats(s3, toks, doc[3])
        ELSE [st EXCEPT !.total = st.total + 1]

\* One iteration of the loop of Scoring.insert: the engine fields st after
\* the document doc = (uid, document, tags) with the running index idx.
InsertOne(st, doc, idx) ==
    LET document == Extract(doc[2])
        uid == IF idx # None THEN idx[1] ELSE doc[1]
    IN  IF document.type \in {"str", "list"}
        THEN LET toks == IF document.type = "str" THEN Tokenize(document.val)
                         ELSE document.val
                 s1 == IF st.documents # None
                       THEN [st EXCEPT !.documents = Some(Put(st.documents[1], uid, document))]
                       ELSE st
                 s2 == IF document.type = "str"
                       THEN [s1 EXCEPT !.tokenizer = Some("tokenizer")]
                       ELSE s1
                 s3 == IF HasTerms
                       THEN [s2 EXCEPT !.terms = TermsInsert(s2.terms, uid, toks)]
                       ELSE s2
             IN  addstats(s3, toks, doc[3])
        ELSE st

\* Mutation of NextIndex: the running index is incremented after every
\* document.
NextIndexEvery(doc, idx) == IF idx # None THEN Some(idx[1] + 1) ELSE idx

\* The running index after one document: incremented unless the resolved
\* content is None.
NextIndex(doc, idx) ==
    IF Extract(doc[2]).type # "none" /\ idx # None THEN Some(idx[1] + 1) ELSE idx

\* History: a document whose resolved content is text or a token list is
\* an accepted document; its tokens and tags are recorded.
Observe(hist, doc) ==
    LET document == Extract(doc[2])
    IN  IF document.type = "str"
        THEN CounterUpdate(hist, <<[tokens |-> Tokenize(document.val), tags |-> doc[3]]>>)
        ELSE IF document.type = "list"
        THEN CounterUpdate(hist, <<[tokens |-> document.val, tags |-> doc[3]]>>)
        ELSE hist

RECURSIVE InsertLoop(_, _, _)
InsertLoop(st, docs, idx) ==
    IF docs = <<>> THEN st
    ELSE InsertLoop([InsertOne(st, Head(docs), idx) EXCEPT
                        !.accepted = Observe(st.accepted, Head(docs))],
                    Tail(docs), NextIndex(Head(docs), idx))

\* The engine fields insert reads and writes.
Fields ==
    [documents |-> documents, tokenizer |-> tokenizer, terms |-> terms,
     wordfreq |-> wordfreq, docfreq |-> docfreq, tags |-> tags, total |-> total,
     accepted |-> accepted]

\* Mutation of insert: the token total is kept current.
insertRefreshing(docs, offset) ==
    LET st == InsertLoop(Fields, docs, offset)
    IN  /\ batch = None
        /\ st.total = total \/ st.total <= MaxDocs
        /\ documents' = st.documents
        /\ tokenizer' = st.tokenizer
        /\ terms' = st.terms
        /\ wordfreq' = st.wordfreq
        /\ docfreq' = st.docfreq
        /\ tags' = st.tags
        /\ total' = st.total
        /\ accepted' = st.accepted
        /\ outcome' = "ok"
        /\ tokens' = SumValues(st.wordfreq)
        /\ UNCHANGED <<config, disk, resources, avgdl, avgfreq, idf, avgidf, normalize, avgscore, pool>>

\* Scoring.insert(documents, index)
insert(docs, offset) ==
    LET st == InsertLoop(Fields, docs, offset)
    IN  /\ batch = None
        /\ st.total = total \/ st.total <= MaxDocs
        /\ documents' = st.documents
        /\ tokenizer' = st.tokenizer
        /\ terms' = st.terms
        /\ wordfreq' = st.wordfreq
        /\ docfreq' = st.docfreq
        /\ tags' = st.tags
        /\ total' = st.total
        /\ accepted' = st.accepted
        /\ outcome' = "ok"
        /\ UNCHANGED <<config, disk, resources, tokens, avgdl, avgfreq, idf, avgidf, normalize, avgscore, pool>>

\* The ids delete pops from the content store before it stops: all of them,
\* or those before the first id that has no entry (dict.pop raises KeyError).
RECURSIVE PopLoop(_, _)
PopLoop(docs, ids) ==
    IF ids = <<>> THEN [documents |-> docs, outcome |-> "ok"]
    ELSE IF Head(ids) \in DOMAIN docs
         THEN PopLoop([k \in DOMAIN docs \ {Head(ids)} |-> docs[k]], Tail(ids))
         ELSE [documents |-> docs, outcome |-> "KeyError"]

\* Mutation of delete: total is decremented by the number of entries removed.
deleteDecrement(ids) ==
    LET popped == IF documents # None /\ DOMAIN documents[1] # {}
                  THEN PopLoop(documents[1], ids)
                  ELSE [documents |-> None, outcome |-> "ok"]
        before == IF documents # None THEN Cardinality(DOMAIN documents[1]) ELSE 0
        after == IF documents # None /\ DOMAIN documents[1] # {}
                 THEN Cardinality(DOMAIN popped.documents) ELSE before
    IN  /\ batch = None
        /\ terms' = IF HasTerms THEN TermsDelete(terms, ids) ELSE terms
        /\ documents' = IF documents # None /\ DOMAIN documents[1] # {}
                        THEN Some(popped.documents) ELSE documents
        /\ outcome' = popped.outcome
        /\ total' = total - (before - after)
        /\ UNCHANGED <<config, disk, resources, tokens, avgdl, docfreq, wordfreq, avgfreq, idf, avgidf,
                       tags, avgscore, tokenizer, normalize, accepted, pool>>

\* Mutation of delete: the content is deleted before the term index, which
\* a KeyError then leaves as it was.
deleteContentFirst(ids) ==
    LET popped == IF documents # None /\ DOMAIN documents[1] # {}
                  THEN PopLoop(documents[1], ids)
                  ELSE [documents |-> None, outcome |-> "ok"]
    IN  /\ batch = None
        /\ terms' = IF HasTerms /\ popped.outcome = "ok" THEN TermsDelete(terms, ids) ELSE terms
        /\ documents' = IF documents # None /\ DOMAIN documents[1] # {}
                        THEN Some(popped.documents) ELSE documents
        /\ outcome' = popped.outcome
        /\ UNCHANGED <<config, disk, resources, stats, tokenizer, normalize, accepted, pool>>

\* Scoring.delete(ids)
delete(ids) ==
    LET popped == IF documents # None /\ DOMAIN documents[1] # {}
                  THEN PopLoop(documents[1], ids)
                  ELSE [documents |-> None, outcome |-> "ok"]
    IN  /\ batch = None
        /\ terms' = IF HasTerms THEN TermsDelete(terms, ids) ELSE terms
        /\ documents' = IF documents # None /\ DOMAIN documents[1] # {}
                        THEN Some(popped.documents) ELSE documents
        /\ outcome' = popped.outcome
        /\ UNCHANGED <<config, disk, resources, stats, tokenizer, normalize, accepted, pool>>

\* The idf of every token of docfreq, as index() computes them from the
\* counters st.
Idfs(st) == [w \in DOMAIN st.docfreq |-> computeidf(st.total, st.docfreq[w])]

\* Mutation of FilterTags: the threshold is 1% of the documents.
FilterTagsOnePercent(tgs, n) == [t \in {x \in DOMAIN tgs : tgs[x] * 100 >= n} |-> tgs[t]]

\* Tags that appear in at least 0.5% of the documents.
FilterTags(tgs, n) == [t \in {x \in DOMAIN tgs : tgs[x] * 1000 >= n * 5} |-> tgs[t]]

\* Mutation of TokenTotal: the distinct tokens are counted.
TokenTotalDistinct(wf) == Cardinality(DOMAIN wf)

\* Line 141: total token frequency.
TokenTotal(wf) == SumValues(wf)

\* Mutation of AvgScore: computed only when normalization is enabled.
AvgScoreIfNormalized(af, ai, dl) == IF normalize THEN Some(score(af, ai, dl)) ELSE None

\* Line 158: average score across the index.
AvgScore(af, ai, dl) == Some(score(af, ai, dl))

\* The aggregates index() builds, as they stand.
Aggregated ==
    [tokens |-> tokens, avgfreq |-> avgfreq, avgdl |-> avgdl, idf |-> idf,
     avgidf |-> avgidf, avgscore |-> avgscore]

\* Mutation of Finalize: without tokens the aggregates are set to zero.
FinalizeZeroed(st, ag) ==
    IF DOMAIN st.wordfreq # {}
    THEN LET toks == TokenTotal(st.wordfreq)
             af == ToFx(toks) \div Cardinality(DOMAIN st.wordfreq)
             dl == ToFx(toks) \div st.total
             ai == SumValues(Idfs(st)) \div Cardinality(DOMAIN st.docfreq)
         IN  [tokens |-> toks, avgfreq |-> af, avgdl |-> dl,
              idf |-> [w \in DOMAIN ag.idf \cup DOMAIN st.docfreq |->
                          IF w \in DOMAIN st.docfreq THEN Idfs(st)[w] ELSE ag.idf[w]],
              avgidf |-> ai, avgscore |-> AvgScore(af, ai, dl),
              tags |-> FilterTags(st.tags, st.total)]
    ELSE [tokens |-> 0, avgfreq |-> 0, avgdl |-> 0, idf |-> ag.idf,
          avgidf |-> 0, avgscore |-> Some(0), tags |-> st.tags]

\* Mutation of Finalize: the token total is added to the previous one.
FinalizeAccumulating(st, ag) ==
    IF DOMAIN st.wordfreq # {}
    THEN LET toks == ag.tokens + TokenTotal(st.wordfreq)
             af == ToFx(toks) \div Cardinality(DOMAIN st.wordfreq)
             dl == ToFx(toks) \div st.total
             ai == SumValues(Idfs(st)) \div Cardinality(DOMAIN st.docfreq)
         IN  [tokens |-> toks, avgfreq |-> af, avgdl |-> dl,
              idf |-> [w \in DOMAIN ag.idf \cup DOMAIN st.docfreq |->
                          IF w \in DOMAIN st.docfreq THEN Idfs(st)[w] ELSE ag.idf[w]],
              avgidf |-> ai, avgscore |-> AvgScore(af, ai, dl),
              tags |-> FilterTags(st.tags, st.total)]
    ELSE [tokens |-> ag.tokens, avgfreq |-> ag.avgfreq, avgdl |-> ag.avgdl,
          idf |-> ag.idf, avgidf |-> ag.avgidf, avgscore |-> ag.avgscore,
          tags |-> st.tags]

\* Mutation of Finalize: a token found in a single document gets no idf.
FinalizeRepeatedOnly(st, ag) ==
    IF DOMAIN st.wordfreq # {}
    THEN LET toks == TokenTotal(st.wordfreq)
             af == ToFx(toks) \div Cardinality(DOMAIN st.wordfreq)
             dl == ToFx(toks) \div st.total
             ai == SumValues(Idfs(st)) \div Cardinality(DOMAIN st.docfreq)
         IN  [tokens |-> toks, avgfreq |-> af, avgdl |-> dl,
              idf |-> [w \in DOMAIN ag.idf \cup {x \in DOMAIN st.docfreq : st.docfreq[x] > 1} |->
                          IF w \in DOMAIN st.docfreq THEN Idfs(st)[w] ELSE ag.idf[w]],
              avgidf |-> ai, avgscore |-> AvgScore(af, ai, dl),
              tags |-> FilterTags(st.tags, st.total)]
    ELSE [tokens |-> ag.tokens, avgfreq |-> ag.avgfreq, avgdl |-> ag.avgdl,
          idf |-> ag.idf, avgidf |-> ag.avgidf, avgscore |-> ag.avgscore,
          tags |-> st.tags]

\* Lines 139-161 of Scoring.index: the aggregates and the tags built from the
\* counters st when any token was parsed, the aggregates ag as they were and
\* the tags of st otherwise.
Finalize(st, ag) ==
    IF DOMAIN st.wordfreq # {}
    THEN LET toks == TokenTotal(st.wordfreq)
             af == ToFx(toks) \div Cardinality(DOMAIN st.wordfreq)
             dl == ToFx(toks) \div st.total
             ai == SumValues(Idfs(st)) \div Cardinality(DOMAIN st.docfreq)
         IN  [tokens |-> toks, avgfreq |-> af, avgdl |-> dl,
              idf |-> [w \in DOMAIN ag.idf \cup DOMAIN st.docfreq |->
                          IF w \in DOMAIN st.docfreq THEN Idfs(st)[w] ELSE ag.idf[w]],
              avgidf |-> ai, avgscore |-> AvgScore(af, ai, dl),
              tags |-> FilterTags(st.tags, st.total)]
    ELSE [tokens |-> ag.tokens, avgfreq |-> ag.avgfreq, avgdl |-> ag.avgdl,
          idf |-> ag.idf, avgidf |-> ag.avgidf, avgscore |-> ag.avgscore,
          tags |-> st.tags]

\* Scoring.index(documents): insert the documents, if any, then build the
\* aggregates if any token was parsed, then build the term index.
index(docs) ==
    LET st == IF docs # <<>> THEN InsertLoop(Fields, docs, None) ELSE Fields
        ag == Finalize(st, Aggregated)
    IN  /\ batch = None
        /\ st.total = total \/ st.total <= MaxDocs
        /\ tokens' = ag.tokens
        /\ avgfreq' = ag.avgfreq
        /\ avgdl' = ag.avgdl
        /\ idf' = ag.idf
        /\ avgidf' = ag.avgidf
        /\ avgscore' = ag.avgscore
        /\ tags' = ag.tags
        /\ terms' = IF HasTerms THEN TermsIndex(st.terms) ELSE st.terms
        /\ documents' = st.documents
        /\ tokenizer' = st.tokenizer
        /\ wordfreq' = st.wordfreq
        /\ docfreq' = st.docfreq
        /\ total' = st.total
        /\ accepted' = st.accepted
        /\ outcome' = "ok"
        /\ UNCHANGED <<config, disk, resources, normalize, pool>>

\* idf of a token, avgidf when the token has none (line 196).
IdfOf(w) == IF w \in DOMAIN idf THEN idf[w] ELSE avgidf

Min(a, b) == IF a <= b THEN a ELSE b

Max(a, b) == IF a >= b THEN a ELSE b

\* Number of times w occurs in toks.
TermFreq(toks, w) == Cardinality({i \in DOMAIN toks : toks[i] = w})

\* The term index's score of entry e for a query: the engine's score law
\* (handed to Terms at construction with the idf map) summed over the query
\* terms the document holds.
TermsScore(e, query) ==
    LET hit == Range(query) \cap Range(e.tokens)
    IN  SumOver([w \in hit |-> score(ToFx(TermFreq(e.tokens, w)), IdfOf(w),
                                      ToFx(Len(e.tokens)))], hit)

RECURSIVE TopN(_, _, _, _)
TopN(t, query, cands, n) ==
    IF n = 0 \/ cands = {} THEN <<>>
    ELSE LET best == CHOOSE i \in cands : \A j \in cands :
                        \/ TermsScore(t[i], query) > TermsScore(t[j], query)
                        \/ TermsScore(t[i], query) = TermsScore(t[j], query) /\ i <= j
         IN  <<<<t[best].uid, TermsScore(t[best], query)>>>>
                 \o TopN(t, query, cands \ {best}, n - 1)

\* Terms.search(tokens, limit): the top `limit` (id, score) of the built
\* entries that hold a query term, by descending score.
TermsSearch(t, query, limit) ==
    TopN(t, query,
         {i \in DOMAIN t : t[i].built /\ Range(query) \cap Range(t[i].tokens) # {}},
         limit)

\* Line 237: best score of the query + average index score, at most
\* 6 * average index score.
MaxScore(top) == Min(top + avgscore[1], 6 * avgscore[1])

\* Mutation of NormalizeScores: the min(..., 1.0) is dropped.
NormalizeScoresNoClamp(scores) ==
    IF normalize /\ scores # <<>>
    THEN IF avgscore = None
         THEN [outcome |-> "TypeError", scores |-> <<>>]
         ELSE IF MaxScore(scores[1][2]) = 0
         THEN [outcome |-> "nan", scores |-> <<>>]
         ELSE [outcome |-> "ok",
               scores |-> [i \in DOMAIN scores |->
                   <<scores[i][1], (scores[i][2] * Scale) \div MaxScore(scores[1][2])>>]]
    ELSE [outcome |-> "ok", scores |-> scores]

\* Lines 234-240 of Scoring.search on the term index's result: adding None
\* raises TypeError; a numpy division by zero yields inf or nan.
NormalizeScores(scores) ==
    IF normalize /\ scores # <<>>
    THEN IF avgscore = None
         THEN [outcome |-> "TypeError", scores |-> <<>>]
         ELSE IF MaxScore(scores[1][2]) = 0
         THEN [outcome |-> "nan", scores |-> <<>>]
         ELSE [outcome |-> "ok",
               scores |-> [i \in DOMAIN scores |->
                   <<scores[i][1],
                     Min((scores[i][2] * Scale) \div MaxScore(scores[1][2]), Scale)>>]]
    ELSE [outcome |-> "ok", scores |-> scores]

\* What a call returns: how it ended, whether it returned None, and the rows
\* [id, score, text] (text is None in a plain (id, score) pair).
Returned(rows) == [outcome |-> "ok", null |-> FALSE, rows |-> rows]

Raised(error) == [outcome |-> error, null |-> FALSE, rows |-> <<>>]

ReturnedNone == [outcome |-> "ok", null |-> TRUE, rows |-> <<>>]

\* Scoring.results: join the content when the content store is non-empty;
\* self.documents[x] raises KeyError for an id without content.
results(scores) ==
    IF documents # None /\ DOMAIN documents[1] # {}
    THEN IF \E i \in DOMAIN scores : scores[i][1] \notin DOMAIN documents[1]
         THEN Raised("KeyError")
         ELSE Returned([i \in DOMAIN scores |->
                  [id |-> scores[i][1], score |-> scores[i][2],
                   text |-> Some(documents[1][scores[i][1]])]])
    ELSE Returned([i \in DOMAIN scores |->
             [id |-> scores[i][1], score |-> scores[i][2], text |-> None]])

\* The tokens of a query: tokenized when it is text.
QueryTokens(query) == IF query.type = "str" THEN Tokenize(query.val) ELSE query.val

\* What Scoring.search(query, limit) returns in the current state.
SearchReturn(query, limit) ==
    IF HasTerms
    THEN LET n == NormalizeScores(TermsSearch(terms, QueryTokens(query), limit))
         IN  IF n.outcome # "ok" THEN Raised(n.outcome) ELSE results(n.scores)
    ELSE ReturnedNone

\* Mutation of SearchTokenizer: a text query is tokenized before the term
\* index is looked for.
SearchTokenizerEager(query) ==
    IF query.type = "str" THEN Some("tokenizer") ELSE tokenizer

\* Scoring.tokenize loads the tokenizer on first use; search tokenizes a
\* text query when a term index is configured.
SearchTokenizer(query) ==
    IF HasTerms /\ query.type = "str" THEN Some("tokenizer") ELSE tokenizer

\* Mutation of search: the avgidf fallback of a query token is stored in idf.
searchCaching(query, limit) ==
    /\ batch = None
    /\ tokenizer' = SearchTokenizer(query)
    /\ outcome' = SearchReturn(query, limit).outcome
    /\ idf' = [w \in DOMAIN idf \cup (IF HasTerms THEN Range(QueryTokens(query)) ELSE {})
                  |-> IdfOf(w)]
    /\ UNCHANGED <<config, disk, resources, total, tokens, avgdl, docfreq, wordfreq, avgfreq, avgidf,
                   tags, avgscore, terms, documents, normalize, accepted, pool>>

\* Scoring.search(query, limit): what the call writes.
search(query, limit) ==
    /\ batch = None
    /\ tokenizer' = SearchTokenizer(query)
    /\ outcome' = SearchReturn(query, limit).outcome
    /\ UNCHANGED <<config, disk, resources, stats, terms, documents, normalize, accepted, pool>>

RECURSIVE SeqMax(_)
SeqMax(s) == IF Len(s) = 1 THEN s[1] ELSE Max(Head(s), SeqMax(Tail(s)))

\* The weights of lines 188-199, before tag boosting.
BaseWeights(toks) ==
    [i \in DOMAIN toks |->
        score(ToFx(computefreq(toks)[toks[i]]), IdfOf(toks[i]), ToFx(Len(toks)))]

\* Mutation of WeightsReturn: the boosted weight replaces the weight.
WeightsReturnNoFloor(toks) ==
    LET wts == BaseWeights(toks)
        matched == {t \in Range(toks) : t \in DOMAIN tags}
    IN  IF DOMAIN tags # {} /\ matched # {}
        THEN LET maxWeight == SeqMax(wts)
                 maxTag == CHOOSE m \in {tags[t] : t \in matched} :
                               \A t \in matched : tags[t] <= m
             IN  [i \in DOMAIN toks |->
                    IF toks[i] \in matched
                    THEN (maxWeight * ((tags[toks[i]] * Scale) \div maxTag)) \div Scale
                    ELSE wts[i]]
        ELSE wts

\* What Scoring.weights(tokens) returns in the current state.
WeightsReturn(toks) ==
    LET wts == BaseWeights(toks)
        matched == {t \in Range(toks) : t \in DOMAIN tags}
    IN  IF DOMAIN tags # {} /\ matched # {}
        THEN LET maxWeight == SeqMax(wts)
                 maxTag == CHOOSE m \in {tags[t] : t \in matched} :
                               \A t \in matched : tags[t] <= m
             IN  [i \in DOMAIN toks |->
                    IF toks[i] \in matched
                    THEN Max((maxWeight * ((tags[toks[i]] * Scale) \div maxTag)) \div Scale,
                             wts[i])
                    ELSE wts[i]]
        ELSE wts

\* Scoring.weights(tokens): what the call writes.
weights(toks) ==
    /\ batch = None
    /\ outcome' = "ok"
    /\ UNCHANGED <<config, disk, resources, stats, tokenizer, terms, documents, normalize, accepted, pool>>

\* What Scoring.count() returns in the current state.
CountReturn == IF HasTerms THEN TermsCount(terms) ELSE total

\* Scoring.count(): what the call writes.
count ==
    /\ batch = None
    /\ outcome' = "ok"
    /\ UNCHANGED <<config, disk, resources, stats, tokenizer, terms, documents, normalize, accepted, pool>>

\* math.ceil(a / b)
CeilDiv(a, b) == (a + b - 1) \div b

\* Mutation of Threads: the count is divided rounding down.
ThreadsFloor(arg) ==
    LET n == IF arg.type = "bool" /\ arg.val = 1
             THEN CountReturn \div RecordsPerThread ELSE arg.val
    IN  Min(Max(n, 1), CpuCount)

\* Lines 254-255: the number of worker threads for a threads argument,
\* a bool or an int held as [type, val].
Threads(arg) ==
    LET n == IF arg.type = "bool" /\ arg.val = 1
             THEN CeilDiv(CountReturn, RecordsPerThread) ELSE arg.val
    IN  Min(Max(n, 1), CpuCount)

\* Scoring.batchsearch(queries, limit, threads), up to the start of starmap.
batchsearch(queries, limit, arg) ==
    /\ batch = None
    /\ batch' = Some([queries |-> queries, limit |-> limit, threads |-> Threads(arg)])
    /\ queue' = 1
    /\ running' = {}
    /\ done' = <<>>
    /\ completed' = <<>>
    /\ outcome' = "ok"
    /\ UNCHANGED <<config, disk, resources, stats, tokenizer, terms, documents, normalize, accepted>>

\* ThreadPool: an idle worker takes the next query.
PoolTake ==
    /\ batch # None
    /\ queue <= Len(batch[1].queries)
    /\ Cardinality(running) < batch[1].threads
    /\ running' = running \cup {queue}
    /\ queue' = queue + 1
    /\ UNCHANGED <<config, disk, resources, stats, tokenizer, terms, documents, normalize, accepted,
                   outcome, batch, done, completed>>

\* ThreadPool: the worker searching query i completes self.search(x, limit).
PoolFinish(i) ==
    /\ batch # None
    /\ i \in running
    /\ running' = running \ {i}
    /\ done' = Put(done, i, SearchReturn(batch[1].queries[i], batch[1].limit))
    /\ completed' = Append(completed, i)
    /\ tokenizer' = SearchTokenizer(batch[1].queries[i])
    /\ UNCHANGED <<config, disk, resources, stats, terms, documents, normalize, accepted,
                   outcome, batch, queue>>

\* Mutation of Collect: the results in the order the searches completed.
CollectCompleted(res, order) == [i \in DOMAIN order |-> res[order[i]]]

\* starmap's list: the results by position of the query.
Collect(res, order) == [i \in DOMAIN res |-> res[i]]

\* Every query of the batch has been searched.
BatchComplete ==
    /\ batch # None
    /\ queue > Len(batch[1].queries)
    /\ running = {}

\* What batchsearch returns once every query has been searched.
BatchReturn == Collect(done, completed)

\* Scoring.batchsearch returns (or re-raises the error of a search).
batchreturn ==
    /\ BatchComplete
    /\ outcome' = IF \E i \in DOMAIN done : done[i].outcome # "ok"
                  THEN done[CHOOSE i \in DOMAIN done : done[i].outcome # "ok"
                               /\ \A j \in DOMAIN done : done[j].outcome # "ok" => i <= j].outcome
                  ELSE "ok"
    /\ batch' = None
    /\ queue' = 1
    /\ running' = {}
    /\ done' = <<>>
    /\ completed' = <<>>
    /\ UNCHANGED <<config, disk, resources, stats, tokenizer, terms, documents, normalize, accepted>>

Next ==
    \/ \E c \in InsertCalls : insert(c[1], c[2])
    \/ \E ids \in IdLists : delete(ids)
    \/ \E docs \in IndexBatches : index(docs)
    \/ \E query \in Queries, limit \in Limits : search(query, limit)
    \/ \E toks \in WeightInputs : weights(toks)
    \/ count
    \/ \E queries \in QueryLists, limit \in BatchLimits, arg \in ThreadArgs :
           batchsearch(queries, limit, arg)
    \/ PoolTake
    \/ \E i \in running : PoolFinish(i)
    \/ batchreturn

Spec == Init /\ [][Next]_vars

\* ------------------------------------------------------------ persistence

\* Mutation of Snapshot: tags is among the fields left out.
SnapshotWithoutTags ==
    [total |-> total, tokens |-> tokens, avgdl |-> avgdl, docfreq |-> docfreq,
     wordfreq |-> wordfreq, avgfreq |-> avgfreq, idf |-> idf, avgidf |-> avgidf,
     tags |-> <<>>, documents |-> documents, normalize |-> normalize,
     avgscore |-> avgscore]

\* Line 303: every field of the engine but config, terms and tokenizer.
Snapshot ==
    [total |-> total, tokens |-> tokens, avgdl |-> avgdl, docfreq |-> docfreq,
     wordfreq |-> wordfreq, avgfreq |-> avgfreq, idf |-> idf, avgidf |-> avgidf,
     tags |-> tags, documents |-> documents, normalize |-> normalize,
     avgscore |-> avgscore]

\* Scoring.save(path)
save ==
    /\ batch = None
    /\ disk' = [scoring |-> Some(Snapshot),
                terms |-> IF HasTerms THEN Some(TermsSave(terms)) ELSE disk.terms,
                history |-> accepted]
    /\ outcome' = "ok"
    /\ UNCHANGED <<config, resources, stats, tokenizer, terms, documents, normalize, accepted, pool>>

\* Scoring.load(path): open() raises when there is no file; otherwise every
\* pickled field replaces the engine's, and with a term index configured a
\* new one is loaded from the term index file.
load ==
    /\ batch = None
    /\ IF disk.scoring = None
       THEN /\ outcome' = "FileNotFoundError"
            /\ UNCHANGED <<stats, documents, normalize, terms, accepted, resources>>
       ELSE LET state == disk.scoring[1]
            IN  /\ total' = state.total
                /\ tokens' = state.tokens
                /\ avgdl' = state.avgdl
                /\ docfreq' = state.docfreq
                /\ wordfreq' = state.wordfreq
                /\ avgfreq' = state.avgfreq
                /\ idf' = state.idf
                /\ avgidf' = state.avgidf
                /\ tags' = state.tags
                /\ documents' = state.documents
                /\ normalize' = state.normalize
                /\ avgscore' = state.avgscore
                /\ accepted' = disk.history
                /\ terms' = IF HasTerms /\ disk.terms # None
                            THEN TermsLoad(disk.terms[1]) ELSE <<>>
                /\ resources' = IF HasTerms THEN [resources EXCEPT !.held = TRUE]
                                ELSE resources
                /\ outcome' = IF HasTerms /\ disk.terms = None
                              THEN "FileNotFoundError" ELSE "ok"
    /\ UNCHANGED <<config, disk, tokenizer, pool>>

\* The files another engine left at the path: one constructed with the
\* same term index and content settings and the other normalize setting,
\* saved before any document was inserted.
OtherFiles ==
    [scoring |-> Some([total |-> 0, tokens |-> 0, avgdl |-> 0, docfreq |-> <<>>,
                       wordfreq |-> <<>>, avgfreq |-> 0, idf |-> <<>>, avgidf |-> 0,
                       tags |-> <<>>,
                       documents |-> IF config.content THEN Some(<<>>) ELSE None,
                       normalize |-> ~config.normalize, avgscore |-> None]),
     terms |-> IF config.terms THEN Some(TermsSave(<<>>)) ELSE None,
     history |-> <<>>]

\* The engine after construction, the path holding no file or another
\* engine's.
InitPersist ==
    /\ config \in Configs
    /\ total = 0
    /\ tokens = 0
    /\ avgdl = 0
    /\ docfreq = <<>>
    /\ wordfreq = <<>>
    /\ avgfreq = 0
    /\ idf = <<>>
    /\ avgidf = 0
    /\ tags = <<>>
    /\ tokenizer = None
    /\ terms = <<>>
    /\ documents = IF config.content THEN Some(<<>>) ELSE None
    /\ normalize = config.normalize
    /\ avgscore = None
    /\ accepted = <<>>
    /\ outcome = "ok"
    /\ batch = None
    /\ queue = 1
    /\ running = {}
    /\ done = <<>>
    /\ completed = <<>>
    /\ disk \in {NoFiles, OtherFiles}
    /\ resources = TermsOpen

\* The calls made between saves and loads: one text document or one token
\* list with tags, index(), delete of id 1, one text query.
PersistInserts ==
    { <<<<<<1, Str("a b"), None>>>>, None>>,
      <<<<<<2, List(<<"a", "a">>), Some("a b b")>>>>, None>> }

NextPersist ==
    \/ \E c \in PersistInserts : insert(c[1], c[2])
    \/ index(<<>>)
    \/ delete(<<1>>)
    \/ search(Str("a b"), 3)
    \/ save
    \/ load

SpecPersist == InitPersist /\ [][NextPersist]_vars

\* --------------------------------------------------------- large corpora

\* The tags of one document, as addstats splits them (lines 396-397).
TagList(tgs) == IF tgs # None /\ tgs[1] # "" THEN Split(tgs[1]) ELSE <<>>

\* A corpus: how many documents of each [tokens, tags] insert accepted.
\* A thousand documents of which ten, five and one carry a tag; two hundred
\* and two hundred and one documents of which one carries a tag; and
\* documents without tokens around one and two batches of RecordsPerThread.
Corpora ==
    { [tokens |-> <<"a", "b">>, tags |-> Some("a")] :> 10
        @@ [tokens |-> <<"a", "b">>, tags |-> Some("b")] :> 5
        @@ [tokens |-> <<"a", "b">>, tags |-> Some("c")] :> 1
        @@ [tokens |-> <<"a", "b">>, tags |-> None] :> 984,
      [tokens |-> <<"a", "b">>, tags |-> Some("c")] :> 1
        @@ [tokens |-> <<"a", "b">>, tags |-> None] :> 199,
      [tokens |-> <<"a", "b">>, tags |-> Some("c")] :> 1
        @@ [tokens |-> <<"a", "b">>, tags |-> None] :> 200,
      [tokens |-> <<>>, tags |-> None] :> RecordsPerThread,
      [tokens |-> <<>>, tags |-> None] :> RecordsPerThread + 1,
      [tokens |-> <<>>, tags |-> None] :> 2 * RecordsPerThread + 1 }

\* The counters addstats leaves after the documents of corpus c: wordfreq
\* counts occurrences, docfreq documents, tags the split tags, total the
\* documents.
CorpusCounters(c) ==
    LET words == UNION {Range(e.tokens) : e \in DOMAIN c}
        labels == UNION {Range(TagList(e.tags)) : e \in DOMAIN c}
    IN  [wordfreq |-> [w \in words |->
                          SumOver([e \in DOMAIN c |-> c[e] * TermFreq(e.tokens, w)], DOMAIN c)],
         docfreq |-> [w \in words |->
                         SumOver([e \in DOMAIN c |->
                                     IF w \in Range(e.tokens) THEN c[e] ELSE 0], DOMAIN c)],
         tags |-> [t \in labels |->
                      SumOver([e \in DOMAIN c |-> c[e] * TermFreq(TagList(e.tags), t)],
                              DOMAIN c)],
         total |-> SumOver(c, DOMAIN c)]

\* The engine after the token lists of a corpus were inserted, all under
\* id 1, and before any index(); with a term index, after delete([1]) as
\* well, which empties the term index and the content store.
InitCorpus ==
    /\ config \in Configs
    /\ \E c \in Corpora :
          /\ accepted = c
          /\ total = CorpusCounters(c).total
          /\ wordfreq = CorpusCounters(c).wordfreq
          /\ docfreq = CorpusCounters(c).docfreq
          /\ tags = CorpusCounters(c).tags
          /\ documents = IF ~config.content THEN None
                         ELSE IF config.terms THEN Some(<<>>)
                         ELSE Some(1 :> List((CHOOSE e \in DOMAIN c : TRUE).tokens))
    /\ tokens = 0
    /\ avgdl = 0
    /\ avgfreq = 0
    /\ idf = <<>>
    /\ avgidf = 0
    /\ tokenizer = None
    /\ terms = <<>>
    /\ normalize = config.normalize
    /\ avgscore = None
    /\ outcome = "ok"
    /\ batch = None
    /\ queue = 1
    /\ running = {}
    /\ done = <<>>
    /\ completed = <<>>
    /\ disk = NoFiles
    /\ resources = TermsOpen

\* The engine with a large corpus inserted.
SpecCorpus == InitCorpus /\ [][Next]_vars

\* ---------------------------------------------------------------- ingest

\* The calls that change what the engine holds: insert, delete and index.
NextIngest ==
    \/ \E c \in InsertCalls : insert(c[1], c[2])
    \/ \E ids \in IdLists : delete(ids)
    \/ \E docs \in IndexBatches : index(docs)

SpecIngest == Init /\ [][NextIngest]_vars

\* ------------------------------------------------------------------ close

\* Mutation of close: the term index is closed whether there is one or not.
closeUnguarded ==
    /\ batch = None
    /\ resources' = IF HasTerms THEN TermsClose(resources) ELSE resources
    /\ outcome' = IF HasTerms THEN "ok" ELSE "AttributeError"
    /\ UNCHANGED <<config, disk, stats, tokenizer, terms, documents, normalize, accepted, pool>>

\* Scoring.close()
close ==
    /\ batch = None
    /\ resources' = IF HasTerms THEN TermsClose(resources) ELSE resources
    /\ outcome' = "ok"
    /\ UNCHANGED <<config, disk, stats, tokenizer, terms, documents, normalize, accepted, pool>>

\* The term index can be called: there is none, or its resources are held.
Usable == ~HasTerms \/ resources.held

\* The calls made before and between close() calls; what a term index does
\* once its resources are released is not defined, and no call but close()
\* is made then.
NextClose ==
    \/ \E c \in PersistInserts : Usable /\ insert(c[1], c[2])
    \/ \E docs \in IndexBatches : Usable /\ index(docs)
    \/ Usable /\ delete(<<1>>)
    \/ \E q \in Queries : Usable /\ search(q, 3)
    \/ close

SpecClose == Init /\ [][NextClose]_vars

\* -------------------------------------------------------------- scenario

\* The corpus of the weighting scenario, tokenized: "the cat sat" and
\* "the dog ran", without tags.
ScenarioDocs ==
    { <<1, List(<<"the", "cat", "sat">>), None>>,
      <<2, List(<<"the", "dog", "ran">>), None>> }

\* index is called with no document or with one of the corpus.
ScenarioBatches == {<<>>} \cup {<<d>> : d \in ScenarioDocs}

\* The token list weighted and searched for.
ScenarioQuery == <<"cat", "the">>

\* The calls of the scenario: the documents are inserted one at a time or
\* handed to index, the query is weighted and searched, documents deleted.
NextScenario ==
    \/ \E d \in ScenarioDocs : insert(<<d>>, None)
    \/ \E docs \in ScenarioBatches : index(docs)
    \/ weights(ScenarioQuery)
    \/ search(List(ScenarioQuery), 3)
    \/ \E ids \in IdLists : delete(ids)

SpecScenario == Init /\ [][NextScenario]_vars

\* ------------------------------------------------------------------ claims

\* The number of documents the history holds.
AcceptedCount == SumOver(accepted, DOMAIN accepted)

\* The number of accepted documents that hold token t at least once.
AcceptedWith(t) ==
    LET holding == {e \in DOMAIN accepted : t \in Range(e.tokens)}
    IN  SumOver([e \in holding |-> accepted[e]], holding)

\* The number of token occurrences over the accepted documents.
AcceptedOccurrences ==
    SumOver([e \in DOMAIN accepted |-> accepted[e] * Len(e.tokens)], DOMAIN accepted)

\* The tokens of the documents, and one that no document holds.
Tokens == {"a", "b", "c"}

\* Scores a term index may report: zero, below, at and far above the
\* average score of the index.
ScoreValues == {0, Scale \div 2, Scale, 20 * Scale}

\* Term index results of one or two (id, score) pairs, by descending score.
ScoreLists ==
    {<<<<i, x>>>> : i \in Ids, x \in ScoreValues}
      \cup {<<<<i, x>>, <<j, y>>>> : <<i, x, j, y>> \in
               {q \in Ids \X ScoreValues \X Ids \X ScoreValues : q[2] >= q[4]}}

\* C1: in every reachable state total is the number of documents insert
\* accepted so far, each counted once, indexed or not.
C1_TotalCountsAccepted == total = AcceptedCount

\* Two documents accepted under the same id, before any index().
C1_Witness ==
    /\ HasTerms
    /\ Len(terms) = 2
    /\ terms[1].uid = terms[2].uid
    /\ ~terms[1].built
    /\ total = 2
    /\ avgscore = None

\* C2: in every reachable state docfreq[t] is the number of accepted
\* documents holding t, so docfreq[t] <= total and docfreq[t] <= wordfreq[t].
C2_DocFreqCountsDocuments ==
    \A t \in Tokens \cup DOMAIN docfreq \cup DOMAIN wordfreq :
        /\ Get0(docfreq, t) = AcceptedWith(t)
        /\ Get0(docfreq, t) <= total
        /\ Get0(docfreq, t) <= Get0(wordfreq, t)

\* A token held twice by one document and once by another.
C2_Witness ==
    /\ total = 2
    /\ Get0(docfreq, "a") = 2
    /\ Get0(wordfreq, "a") = 3

\* C3: every index() call leaves total equal to the number of accepted
\* documents and tokens equal to the sum of wordfreq and to the number of
\* token occurrences over the accepted documents.
C3_IndexTotals ==
    [][\A docs \in IndexBatches : index(docs) =>
          /\ total' = AcceptedCount'
          /\ tokens' = SumOver(wordfreq', DOMAIN wordfreq')
          /\ tokens' = AcceptedOccurrences']_vars

\* index() has built the statistics of two documents of two tokens each.
C3_Witness ==
    /\ total = 2
    /\ tokens = 4
    /\ avgscore # None
    /\ AcceptedOccurrences = 4

\* The scores of the rows all lie in [0, 1].
UnitScores(rows) == \A i \in DOMAIN rows : 0 <= rows[i].score /\ rows[i].score <= Scale

\* C4: with normalize enabled and statistics built by index(), search
\* returns scores in [0, 1] for every term index result with non-negative
\* scores, and so for every query.
C4_NormalizedScoresInUnit ==
    (normalize /\ avgscore # None) =>
        /\ \A scores \in ScoreLists :
              LET n == NormalizeScores(scores)
              IN  /\ n.outcome = "ok"
                  /\ \A i \in DOMAIN scores :
                        0 <= n.scores[i][2] /\ n.scores[i][2] <= Scale
        /\ \A q \in Queries, l \in Limits :
              LET r == SearchReturn(q, l)
              IN  r.outcome = "ok" /\ UnitScores(r.rows)

\* A search that returns a score rescaled to strictly between 0 and 1.
C4_Witness ==
    /\ normalize
    /\ avgscore # None
    /\ HasTerms
    /\ \E q \in Queries, l \in Limits :
          /\ SearchReturn(q, l).rows # <<>>
          /\ SearchReturn(q, l).rows[1].score > 0
          /\ SearchReturn(q, l).rows[1].score < Scale

\* C5: while avgscore is undefined every search raises, returns None or
\* returns no row.
C5_NoResultBeforeIndex ==
    avgscore = None =>
        \A q \in Queries, l \in Limits :
            LET r == SearchReturn(q, l)
            IN  r.outcome # "ok" \/ r.null \/ r.rows = <<>>

\* A term index holding a document whose tokens match a query, normalize
\* enabled, before index() has built any statistics.
C5_Witness ==
    /\ HasTerms
    /\ normalize
    /\ avgscore = None
    /\ \E i \in DOMAIN terms : "b" \in Range(terms[i].tokens)
    /\ SearchReturn(List(<<"b">>), 3) = Returned(<<>>)

\* C6: once index() has defined avgscore it is positive, and so is maxscore
\* for every non-negative top score.
C6_NoDivisionByZero ==
    avgscore # None =>
        /\ avgscore[1] > 0
        /\ \A top \in ScoreValues : MaxScore(top) > 0

\* A search that rescales a non-empty result.
C6_Witness ==
    /\ normalize
    /\ avgscore # None
    /\ HasTerms
    /\ \E q \in Queries, l \in Limits :
          /\ TermsSearch(terms, QueryTokens(q), l) # <<>>
          /\ SearchReturn(q, l).rows # <<>>

\* C7: when every query of a batch has been searched, batchsearch returns
\* one result per query and the result at position i is what search returns
\* for query i.
C7_BatchResultsInQueryOrder ==
    BatchComplete =>
        /\ Len(BatchReturn) = Len(batch[1].queries)
        /\ \A i \in DOMAIN batch[1].queries :
              BatchReturn[i] = SearchReturn(batch[1].queries[i], batch[1].limit)

\* Two queries with different results whose searches completed in the
\* reverse order.
C7_Witness ==
    /\ BatchComplete
    /\ completed = <<2, 1>>
    /\ BatchReturn[1] # BatchReturn[2]
    /\ BatchReturn[2].rows # <<>>

\* C8: search, weights, count and every step of batchsearch and of its
\* worker threads leave the statistics, normalize and the content store
\* unchanged; contrapositively, a step that changes one of them is a step of
\* none of these.
C8_SearchPathReadOnly ==
    [][~(UNCHANGED <<stats, normalize, documents>>) =>
          ~(\/ \E q \in Queries, l \in Limits : search(q, l)
            \/ \E toks \in WeightInputs : weights(toks)
            \/ count
            \/ \E queries \in QueryLists, l \in BatchLimits, arg \in ThreadArgs :
                   batchsearch(queries, l, arg)
            \/ PoolTake
            \/ \E i \in running : PoolFinish(i)
            \/ batchreturn)]_vars

\* Two worker threads searching at once over built statistics, one search
\* already completed out of a text query.
C8_Witness ==
    /\ batch # None
    /\ avgscore # None
    /\ HasTerms
    /\ documents # None
    /\ completed # <<>>
    /\ running # {}

\* C9: delete changes no statistics field, whatever the ids and the state,
\* so count() without a term index is the same before and after.
C9_DeleteKeepsStatistics ==
    [][\A ids \in IdLists : delete(ids) =>
          /\ UNCHANGED stats
          /\ ~HasTerms => CountReturn' = CountReturn]_vars

\* Two documents were accepted and stored, and delete emptied the store.
C9_Witness ==
    /\ ~HasTerms
    /\ documents = Some(<<>>)
    /\ total = 2
    /\ CountReturn = 2

\* C10: with content storage enabled delete completes without error for any
\* ids, removes exactly the entries whose id is listed, and forwards the ids
\* to the term index.
C10_DeleteCompletes ==
    [][\A ids \in IdLists : (documents # None /\ delete(ids)) =>
          /\ outcome' = "ok"
          /\ documents' = Some([k \in DOMAIN documents[1] \ Range(ids) |-> documents[1][k]])
          /\ HasTerms => terms' = TermsDelete(terms, ids)]_vars

\* C11: an index() call that finds wordfreq empty ends without error and
\* leaves tokens, avgdl, avgfreq, idf, avgidf, tags and avgscore as they
\* were, avgscore undefined.
C11_IndexWithoutTokens ==
    [][\A docs \in IndexBatches : (index(docs) /\ DOMAIN wordfreq' = {}) =>
          /\ outcome' = "ok"
          /\ UNCHANGED <<tokens, avgdl, avgfreq, idf, avgidf, tags, avgscore>>
          /\ avgscore' = None]_vars

\* index() has run (the term index is built) over one accepted document
\* that has no token.
C11_Witness ==
    /\ HasTerms
    /\ total = 1
    /\ DOMAIN wordfreq = {}
    /\ Len(terms) = 1
    /\ terms[1].built
    /\ avgscore = None

\* The aggregates and the tags, as they stand.
Built ==
    [tokens |-> tokens, avgfreq |-> avgfreq, avgdl |-> avgdl, idf |-> idf,
     avgidf |-> avgidf, avgscore |-> avgscore, tags |-> tags]

\* C12: after every index() call, what a second index() call would build
\* with no insert in between is what the first call left.
C12_IndexIdempotent ==
    [][\A docs \in IndexBatches : index(docs) =>
          Finalize([wordfreq |-> wordfreq', docfreq |-> docfreq', tags |-> tags',
                    total |-> total'],
                   [tokens |-> tokens', avgfreq |-> avgfreq', avgdl |-> avgdl',
                    idf |-> idf', avgidf |-> avgidf', avgscore |-> avgscore'])
            = Built']_vars

\* Aggregates built over two documents, with tags retained.
C12_Witness ==
    /\ total = 2
    /\ avgscore # None
    /\ tokens = 4
    /\ DOMAIN tags # {}
    /\ Finalize(Fields, Aggregated) = Built

\* C13: a step that changes idf, avgidf, avgscore, tokens, avgdl or avgfreq,
\* or after which a token new to docfreq has an idf entry, is no insert step;
\* weights() uses avgidf for a token of docfreq that has no idf entry; only
\* index() changes idf, and a step that leaves tokens counted and different
\* keys in idf and docfreq is no index() call.
C13_InsertKeepsAggregates ==
    [][/\ ~(/\ UNCHANGED <<idf, avgidf, avgscore, tokens, avgdl, avgfreq>>
            /\ \A w \in DOMAIN docfreq' \ DOMAIN docfreq : w \notin DOMAIN idf')
          => ~(\E c \in InsertCalls : insert(c[1], c[2]))
       /\ \A w \in DOMAIN docfreq \ DOMAIN idf :
             BaseWeights(<<w>>) = <<score(ToFx(1), avgidf, ToFx(1))>>
       /\ idf' # idf => \E docs \in IndexBatches : index(docs)
       /\ (DOMAIN wordfreq' # {} /\ DOMAIN idf' # DOMAIN docfreq') =>
             ~(\E docs \in IndexBatches : index(docs))]_vars

\* After index(), insert has added a token that has no idf entry.
C13_Witness ==
    /\ avgscore # None
    /\ total = 2
    /\ "b" \in DOMAIN docfreq
    /\ "b" \notin DOMAIN idf
    /\ "a" \in DOMAIN idf

\* The tags index() filters: those of the engine, after the documents
\* passed to index() were inserted.
Accumulated(docs) == IF docs = <<>> THEN tags ELSE InsertLoop(Fields, docs, None).tags

AcceptedTagged(t) ==
    LET carrying == {e \in DOMAIN accepted : t \in Range(TagList(e.tags))}
    IN  SumOver([e \in carrying |-> accepted[e]], carrying)

\* C15: every tag of tags maps to the number of accepted documents that
\* carry it, and index() retains a tag carried by at least 0.5% of the
\* accepted documents.
C15_TagsCountDocuments ==
    [][/\ \A t \in DOMAIN tags : tags[t] = AcceptedTagged(t)
       /\ \A docs \in IndexBatches : (index(docs) /\ DOMAIN wordfreq' # {}) =>
             \A t \in DOMAIN Accumulated(docs) :
                 200 * AcceptedTagged(t)' >= total' => t \in DOMAIN tags']_vars

\* The largest element of a non-empty set of numbers.
SetMax(S) == CHOOSE m \in S : \A x \in S : x <= m

\* C16: weights() returns one weight per token; a token that is no retained
\* tag keeps its unboosted weight; a token that is a retained tag gets the
\* larger of its unboosted weight and maxWeight * tagCount / maxMatched,
\* between its unboosted weight and the largest unboosted weight, and the
\* matched tag of the largest count gets the largest unboosted weight.
C16_BoostOnlyRaises ==
    \A toks \in WeightInputs :
        LET w == WeightsReturn(toks)
            u == BaseWeights(toks)
            matched == {i \in DOMAIN toks : toks[i] \in DOMAIN tags}
        IN  /\ DOMAIN w = DOMAIN toks
            /\ \A i \in DOMAIN toks \ matched : w[i] = u[i]
            /\ matched # {} =>
                  LET top == SetMax({u[i] : i \in DOMAIN toks})
                      most == SetMax({tags[toks[i]] : i \in matched})
                  IN  \A i \in matched :
                          /\ w[i] >= u[i]
                          /\ w[i] <= top
                          /\ w[i] = Max((top * ((tags[toks[i]] * Scale) \div most)) \div Scale,
                                        u[i])
                          /\ tags[toks[i]] = most => w[i] = top

\* Built idf values, and two retained tags of different counts matched by
\* one token sequence whose weights boosting changes.
C16_Witness ==
    /\ avgscore # None
    /\ "a" \in DOMAIN tags
    /\ "b" \in DOMAIN tags
    /\ tags["a"] > tags["b"]
    /\ WeightsReturn(<<"b", "c", "c">>) # BaseWeights(<<"b", "c", "c">>)
    /\ WeightsReturn(<<"b", "c", "c">>)[1] = BaseWeights(<<"b", "c", "c">>)[2]

\* C20: batchsearch starts clamp(b, 1, CpuCount) worker threads, where b is
\* the integer passed, 0 for False, and for True the least number of
\* batches of RecordsPerThread that hold count() records, count() being the
\* term index's count with a term index and total without.
C20_ThreadCount ==
    [][\A queries \in QueryLists, l \in BatchLimits, arg \in ThreadArgs :
          batchsearch(queries, l, arg) =>
              LET records == IF config.terms THEN Len(terms) ELSE total
                  b == IF arg.type = "bool"
                       THEN (IF arg.val = 1
                             THEN (IF records = 0 THEN 0
                                   ELSE 1 + ((records - 1) \div RecordsPerThread))
                             ELSE 0)
                       ELSE arg.val
                  clamped == IF b < 1 THEN 1 ELSE IF b > CpuCount THEN CpuCount ELSE b
              IN  /\ batch'[1].threads = clamped
                  /\ (arg.val = 0 \/ (arg.type = "bool" /\ records = 0)) =>
                        batch'[1].threads = 1]_vars

\* A batch over 2 * RecordsPerThread + 1 records runs with as many threads
\* as there are processors.
C20_Witness ==
    /\ ~HasTerms
    /\ batch # None
    /\ total = 2 * RecordsPerThread + 1
    /\ batch[1].threads = CpuCount
    /\ running = {1, 2}

\* C19: without a term index every search returns None without error, in
\* every state and for every query, and changes no field of the engine.
C19_SearchWithoutTerms ==
    [][\A q \in Queries, l \in Limits : (~HasTerms /\ search(q, l)) =>
          /\ SearchReturn(q, l) = ReturnedNone
          /\ outcome' = "ok"
          /\ UNCHANGED <<config, stats, tokenizer, terms, documents, normalize>>]_vars

\* An engine without a term index, its aggregates built, that never loaded
\* a tokenizer.
C19_Witness ==
    /\ ~HasTerms
    /\ avgscore # None
    /\ total = 2
    /\ tokenizer = None
    /\ outcome = "ok"
    /\ SearchReturn(Str("a b"), 3) = ReturnedNone

\* C17: isnormalized() returns the normalize setting the engine was
\* constructed with, after any insert, index, delete, search, save and load.
C17_NormalizeFixed == normalize = config.normalize

\* The fields a save and load round trip reproduces.
Persisted ==
    [total |-> total, tokens |-> tokens, avgdl |-> avgdl, wordfreq |-> wordfreq,
     docfreq |-> docfreq, avgfreq |-> avgfreq, idf |-> idf, avgidf |-> avgidf,
     tags |-> tags, avgscore |-> avgscore, documents |-> documents]

\* The same fields of a scoring file.
PersistedIn(file) == [f \in DOMAIN Persisted |-> file[f]]

\* C18: save writes total, tokens, avgdl, wordfreq, docfreq, avgfreq, idf,
\* avgidf, tags, avgscore and documents as they are and changes no field of
\* the engine; load makes these fields those of the file and leaves config
\* (the term index settings included) and the tokenizer as they were.
C18_SaveLoadRoundTrip ==
    [][/\ save =>
             /\ PersistedIn(disk'.scoring[1]) = Persisted
             /\ UNCHANGED <<config, stats, tokenizer, terms, documents, normalize>>
       /\ (load /\ disk.scoring # None) =>
             /\ Persisted' = PersistedIn(disk.scoring[1])
             /\ UNCHANGED <<config, tokenizer, disk>>]_vars

\* The engine holds what a save of built aggregates, tags and content
\* wrote, the tokenizer loaded and the term index restored.
C18_Witness ==
    /\ disk.scoring # None
    /\ Persisted = PersistedIn(disk.scoring[1])
    /\ avgscore # None
    /\ total = 2
    /\ DOMAIN tags # {}
    /\ documents # None
    /\ tokenizer # None
    /\ HasTerms
    /\ terms = disk.terms[1]

\* A document insert skips: its content, or the text or object field of its
\* keyed record, is absent or is neither text nor a token list.
Skipped(doc) == Extract(doc[2]).type \notin {"str", "list"}

\* The documents of a batch that insert does not skip.
Kept(docs) == SelectSeq(docs, LAMBDA d : ~Skipped(d))

\* The token lists of the entries of a term index, in order.
Postings(t) == [i \in DOMAIN t |-> t[i].tokens]

\* C21: from every reachable state and for every insert call, the total,
\* wordfreq, docfreq and tags the loop of insert leaves are those it leaves
\* for only the documents that are not skipped; a call whose documents are
\* all skipped leaves every field as it is (the loop has no raising path);
\* without an index offset the content store and the term index are also
\* those the other documents alone leave, and with one the term index gains
\* the postings of the other documents and the content store as many keys
\* at most.
C21_SkippedDocumentsIgnored ==
    \A c \in InsertCalls :
        LET st == InsertLoop(Fields, c[1], c[2])
            kept == InsertLoop(Fields, Kept(c[1]), None)
        IN  /\ st.total = kept.total
            /\ st.total = total + Len(Kept(c[1]))
            /\ st.wordfreq = kept.wordfreq
            /\ st.docfreq = kept.docfreq
            /\ st.tags = kept.tags
            /\ Kept(c[1]) = <<>> => st = Fields
            /\ c[2] = None => st.documents = kept.documents /\ st.terms = kept.terms
            /\ Postings(st.terms) = Postings(kept.terms)
            /\ documents # None =>
                  Cardinality(DOMAIN st.documents[1] \ DOMAIN documents[1]) <= Len(Kept(c[1]))

\* Text stored under id 2 as the only document: it was the second of a batch
\* inserted with offset 1 whose first document has an unsupported type.
C21_Witness ==
    /\ total = 1
    /\ documents = Some(2 :> Str("a b"))
    /\ HasTerms
    /\ Len(terms) = 1
    /\ outcome = "ok"


\* C22: after every step, a load included, every key of idf is a key of
\* docfreq; and a step that leaves tokens counted and different keys in idf
\* and docfreq is no index() call.
C22_IdfKeysWithinDocFreq ==
    [][/\ DOMAIN idf' \subseteq DOMAIN docfreq'
       /\ (DOMAIN wordfreq' # {} /\ DOMAIN idf' # DOMAIN docfreq') =>
             ~(\E docs \in IndexBatches : index(docs))]_vars

\* index() built the idf of "a"; the token "b" inserted since has none yet.
C22_Witness ==
    /\ avgscore # None
    /\ DOMAIN idf = {"a"}
    /\ DOMAIN docfreq = {"a", "b"}
    /\ total = 2


\* C23: a step after which tokens are counted and either a token of the
\* smaller document frequency has no larger idf, or an idf is below 1, or a
\* document frequency is above total, is no index() call; and where "cat" has a larger idf than "the" and there are no
\* tags, weights(["cat", "the"]) gives "cat" the larger weight.
C23_IdfDecreasesWithDocFreq ==
    [][/\ (/\ DOMAIN wordfreq' # {}
           /\ \/ \E a, b \in DOMAIN docfreq' :
                    /\ docfreq'[a] < docfreq'[b]
                    /\ ~(a \in DOMAIN idf' /\ b \in DOMAIN idf' /\ idf'[a] > idf'[b])
              \/ \E w \in DOMAIN idf' : idf'[w] < Scale
              \/ \E w \in DOMAIN docfreq' : docfreq'[w] > total')
            => ~(\E docs \in ScenarioBatches : index(docs))
       /\ (/\ "cat" \in DOMAIN idf
           /\ "the" \in DOMAIN idf
           /\ idf["cat"] > idf["the"]
           /\ DOMAIN tags = {})
            => WeightsReturn(ScenarioQuery)[1] > WeightsReturn(ScenarioQuery)[2]]_vars

\* index() has built the idf of the two-document corpus: "the" is in both
\* documents and "cat" in one.
C23_Witness ==
    /\ total = 2
    /\ avgscore # None
    /\ "cat" \in DOMAIN idf
    /\ "the" \in DOMAIN idf
    /\ docfreq["the"] = 2
    /\ docfreq["cat"] = 1
    /\ idf["cat"] > idf["the"]
    /\ idf = Idfs(Fields)
    /\ ~HasTerms
    /\ documents # None
    /\ ~normalize
    /\ WeightsReturn(ScenarioQuery)[1] > WeightsReturn(ScenarioQuery)[2]


OffsetCalls == {c \in InsertCalls : c[2] # None}

\* The tokens insert takes from a document it does not skip.
TokensOf(doc) ==
    IF Extract(doc[2]).type = "str" THEN Tokenize(Extract(doc[2]).val)
    ELSE Extract(doc[2]).val

\* The id of the document at place i (from 1) of a batch inserted with
\* offset k, when the offset counts every document of the batch.
PositionId(k, docs, i) == k + i - 1

\* The same when the offset counts the documents whose content is there.
CountedId(k, docs, i) ==
    k + Cardinality({j \in 1..(i - 1) : Extract(docs[j][2]).type # "none"})

\* In the fields st the call c leaves, every document of c that is not
\* skipped is in the content store and in the term index under the id Id
\* gives it, and the call has added no other key.
StoredUnder(c, Id(_, _, _), st) ==
    LET docs == c[1]
        k == c[2][1]
        kept == {i \in DOMAIN docs : ~Skipped(docs[i])}
        new == (Len(terms) + 1)..Len(st.terms)
    IN  /\ documents # None =>
              /\ \A i \in kept :
                    /\ Id(k, docs, i) \in DOMAIN st.documents[1]
                    /\ st.documents[1][Id(k, docs, i)] = Extract(docs[i][2])
              /\ \A u \in DOMAIN st.documents[1] \ DOMAIN documents[1] :
                    \E i \in kept : u = Id(k, docs, i)
        /\ HasTerms =>
              /\ Len(st.terms) = Len(terms) + Cardinality(kept)
              /\ \A i \in kept : \E n \in new :
                    /\ st.terms[n].uid = Id(k, docs, i)
                    /\ st.terms[n].tokens = TokensOf(docs[i])
              /\ \A n \in new : \E i \in kept : st.terms[n].uid = Id(k, docs, i)

\* C25 as stated: an insert with offset k stores the document at place i
\* (from 0, counting every document) under id k + i.
C25_IdsFollowPositions ==
    [][\A c \in OffsetCalls : insert(c[1], c[2]) =>
          StoredUnder(c, PositionId, [documents |-> documents', terms |-> terms'])]_vars

\* C25 as amended: from every reachable state, an insert with offset k
\* never uses the supplied ids and stores a document under k plus the number
\* of documents before it in the batch whose content is there (not None
\* after field extraction); unsupported content advances the id, absent
\* content does not.
C25_IdsFollowCountedDocuments ==
    \A c \in OffsetCalls : StoredUnder(c, CountedId, InsertLoop(Fields, c[1], c[2]))

\* A token list supplied with id 2 is stored under 1 and a text supplied
\* with id 1 under 2: they were inserted with offset 1.
C25_Witness ==
    /\ documents = Some(1 :> List(<<"a", "a">>) @@ 2 :> Str("a b"))
    /\ HasTerms
    /\ Len(terms) = 2
    /\ terms[1].uid = 1
    /\ terms[1].tokens = <<"a", "a">>
    /\ total = 2


\* C26: with a term index and a content store, after any insert, index and
\* delete calls every id of the term index is a key of the content store, no
\* search ends in a KeyError, and the content store has at most total keys.
C26_TermIdsHaveContent ==
    (HasTerms /\ documents # None) =>
        /\ \A i \in DOMAIN terms : terms[i].uid \in DOMAIN documents[1]
        /\ \A q \in Queries, l \in Limits : SearchReturn(q, l).outcome # "KeyError"
        /\ Cardinality(DOMAIN documents[1]) <= total

\* A delete of ids 1 and 2 raised on id 1: the term index has dropped the
\* document of id 2, which is still stored.
C26_Witness ==
    /\ HasTerms
    /\ documents # None
    /\ outcome = "KeyError"
    /\ DOMAIN documents[1] = {2}
    /\ terms = <<>>
    /\ total = 2
    /\ avgscore # None

====
